---- MODULE Spec2Model ----
(***************************************************************************)
(* Model of distribute_ads_automatically (src/distribution_logic.py): the  *)
(* eligibility filter and scorer, the largest-remainder apportionment of   *)
(* the requested ads over the eligible projects, and the equal split of    *)
(* each project's award over its unit types into log rows.                 *)
(*                                                                         *)
(* Text cells are sequences of one-character strings, so that strip, lower *)
(* and split are computed character by character.  Numeric cells carry the *)
(* kind of their content (number, numeric text, other text, missing), so   *)
(* that pd.to_numeric and fillna are computed, not assumed.  Scores are    *)
(* kept exactly, in tenths (ExcellenceScoreCalc is ProjectExcellenceScore  *)
(* divided by 10.0), and the continuous shares are exact fractions         *)
(* [num, den] in Spec.  SpecFloat is the same call with the scores and the *)
(* shares computed in float64, each operation rounded as IEEE 754 rounds.  *)
(***************************************************************************)
EXTENDS Integers, Sequences, FiniteSets, TLC

\* ------------------------------------------------------------------ bounds
MaxProjects == 3
MaxAds == 4

\* --------------------------------------------------------------- constants
\* the divisor of ProjectExcellenceScore; every score is held in units of 1/Scale
Scale == 10
\* the flat demand bonus
DemandBonus == 5

\* ------------------------------------------------------------------- cells
\* a missing text cell (NaN / None in an object column)
NaN == <<"NaN">>

Num(n) == [k |-> "num", v |-> n]
NumText(n) == [k |-> "numtext", v |-> n]
BadText == [k |-> "text", v |-> 0]
NaNum == [k |-> "nan", v |-> 0]

\* a sequence given by a rule, held as the list of its elements
AsList(f) == f \o <<>>

\* str.lower over the letters the inputs use
lower(c) ==
    CASE c = "N" -> "n"
      [] c = "O" -> "o"
      [] c = "S" -> "s"
      [] c = "Y" -> "y"
      [] c = "E" -> "e"
      [] OTHER -> c

str_lower(s) == AsList([i \in 1..Len(s) |-> lower(s[i])])

RECURSIVE lstrip(_)
lstrip(s) == IF s # <<>> /\ Head(s) = " " THEN lstrip(Tail(s)) ELSE s

RECURSIVE rstrip(_)
rstrip(s) ==
    IF s # <<>> /\ s[Len(s)] = " " THEN rstrip(SubSeq(s, 1, Len(s) - 1)) ELSE s

str_strip(s) == rstrip(lstrip(s))

\* Series.astype(str): a missing cell becomes the text "nan"
astype_str(x) == IF x = NaN THEN <<"n", "a", "n">> ELSE x

\* str.split(','): the pieces between commas, empty pieces included
RECURSIVE split(_)
split(s) ==
    IF \E i \in 1..Len(s) : s[i] = ","
    THEN LET i == CHOOSE j \in 1..Len(s) :
                     /\ s[j] = ","
                     /\ \A h \in 1..(j - 1) : s[h] # ","
         IN  <<SubSeq(s, 1, i - 1)>> \o split(SubSeq(s, i + 1, Len(s)))
    ELSE <<s>>

\* pd.to_numeric(errors='coerce') on one cell
to_numeric(c) ==
    CASE c.k = "num" -> c
      [] c.k = "numtext" -> Num(c.v)
      [] OTHER -> NaNum

\* fillna(0) on one numeric cell, read as a number
fillna(c) == IF c.k = "nan" THEN 0 ELSE c.v

RECURSIVE SumSeq(_)
SumSeq(s) == IF s = <<>> THEN 0 ELSE Head(s) + SumSeq(Tail(s))

Max(a, b) == IF a >= b THEN a ELSE b
Min(a, b) == IF a <= b THEN a ELSE b

\* ------------------------------------------------------------------ inputs
required_cols ==
    {"ProjectID", "RegionName", "Req", "ProjectOrder", "ProjectExcellenceScore",
     "MarketingSize", "AdsDistributed", "UnitTypesInProject"}

numeric_cols ==
    {"ProjectOrder", "ProjectExcellenceScore", "MarketingSize", "AdsDistributed"}

North == <<"N", "o">>
South == <<"S", "o">>

Regions == {North, <<" ", "n", "O", " ">>, South}

EmployeeIDs == {"E101"}

Row(region, req, order, exc, size, dist, units) ==
    [RegionName |-> region, Req |-> req, ProjectOrder |-> order,
     ProjectExcellenceScore |-> exc, MarketingSize |-> size,
     AdsDistributed |-> dist, UnitTypesInProject |-> units]

\* the rows a snapshot is built from
ProjectRows ==
    { Row(North, <<"Y", "e", "s">>, Num(1), Num(0), Num(0), Num(0),
          <<"A", ",", " ", "B">>),
      Row(<<" ", "n", "O", " ">>, <<" ", "y", "E", "S", " ">>, NumText(2),
          Num(0 - 40), NaNum, BadText, <<"A", ",", "B", " ", "C", ",", "D">>),
      Row(North, <<"Y", "e", "s">>, BadText, Num(0 - 70), Num(1), Num(2), NaN),
      Row(North, <<"y", "e", "s">>, Num(1), NaNum, Num(2), NumText(1),
          <<" ", ",", " ">>),
      Row(North, <<"Y", "E", "S">>, Num(3), Num(0 - 40), Num(0), Num(0),
          <<" ">>),
      Row(South, <<"Y", "e", "s">>, Num(3), Num(0), Num(3), Num(0),
          <<"A", " ", "B", ",", "A", "_", "B", ",", "A", " ", "B">>),
      Row(North, <<"N", "o">>, Num(3), Num(0), Num(3), Num(0), <<"A">>),
      Row(North, NaN, Num(1), Num(0), Num(0), Num(0), <<"B">>) }

ProjectIDOf(i) == "P" \o ToString(i)

WithID(rows) ==
    AsList([i \in 1..Len(rows) |->
        [ProjectID |-> ProjectIDOf(i),
         RegionName |-> rows[i].RegionName,
         Req |-> rows[i].Req,
         ProjectOrder |-> rows[i].ProjectOrder,
         ProjectExcellenceScore |-> rows[i].ProjectExcellenceScore,
         MarketingSize |-> rows[i].MarketingSize,
         AdsDistributed |-> rows[i].AdsDistributed,
         UnitTypesInProject |-> rows[i].UnitTypesInProject]])

Snapshots ==
    UNION {{WithID(rows) : rows \in [1..n -> ProjectRows]} : n \in 0..MaxProjects}

\* the column sets a snapshot may come with
ColumnSets == {required_cols, required_cols \ {"ProjectOrder"}}

\* ------------------------------------------------------------------- state
VARIABLES
    projects_df,               \* the caller's table: its rows, in input order
    columns,                   \* the columns the caller's table has
    df_in,                     \* the rows of the table as they were when the call began
    selected_region,           \* argument of the call
    num_ads_to_distribute,     \* argument of the call
    employee_id,               \* argument of the call
    region_projects,           \* the filtered, scored and apportioned copy
    distribution_log_entries,  \* the log rows, in emission order
    project_ads_update,        \* ProjectID -> ads added
    total_ads_allocated,       \* the returned total
    pc                         \* "start", or the return the last call took

vars ==
    <<projects_df, columns, df_in, selected_region, num_ads_to_distribute,
      employee_id, region_projects, distribution_log_entries, project_ads_update,
      total_ads_allocated, pc>>

\* the empty dict
EmptyMap == [id \in {} |-> 0]

\* ------------------------------------------------- data cleaning, filtering
\* variant: the missing values are filled with 0 in the caller's table too
CoerceNumeric_FillsCaller(df) ==
    AsList([i \in 1..Len(df) |->
        [ProjectID |-> df[i].ProjectID,
         RegionName |-> df[i].RegionName,
         Req |-> df[i].Req,
         ProjectOrder |-> Num(fillna(to_numeric(df[i].ProjectOrder))),
         ProjectExcellenceScore |->
             Num(fillna(to_numeric(df[i].ProjectExcellenceScore))),
         MarketingSize |-> Num(fillna(to_numeric(df[i].MarketingSize))),
         AdsDistributed |-> Num(fillna(to_numeric(df[i].AdsDistributed))),
         UnitTypesInProject |-> df[i].UnitTypesInProject]])

\* the loop over numeric_cols: each is replaced, in the caller's table, by its
\* numeric coercion
CoerceNumeric(df) ==
    AsList([i \in 1..Len(df) |->
        [ProjectID |-> df[i].ProjectID,
         RegionName |-> df[i].RegionName,
         Req |-> df[i].Req,
         ProjectOrder |-> to_numeric(df[i].ProjectOrder),
         ProjectExcellenceScore |-> to_numeric(df[i].ProjectExcellenceScore),
         MarketingSize |-> to_numeric(df[i].MarketingSize),
         AdsDistributed |-> to_numeric(df[i].AdsDistributed),
         UnitTypesInProject |-> df[i].UnitTypesInProject]])

\* variant: the region comparison is left out of the mask
RegionMatches_Any(project, region) == project.RegionName # NaN

\* RegionName.str.strip().str.lower() == selected_region.strip().lower();
\* the .str accessor leaves a missing cell missing, which equals nothing
RegionMatches(project, region) ==
    /\ project.RegionName # NaN
    /\ str_lower(str_strip(project.RegionName)) = str_lower(str_strip(region))

\* Req.astype(str).str.strip().str.lower() == "yes"
ReqIsYes(project) ==
    str_lower(str_strip(astype_str(project.Req))) = <<"y", "e", "s">>

\* variant: the Req flag is not looked at
IsEligible_RegionOnly(project, region) == RegionMatches(project, region)

IsEligible(project, region) ==
    RegionMatches(project, region) /\ ReqIsYes(project)

\* the boolean-mask selection, .copy(), and fillna(0) of the numeric columns
FilterRegion(df, region) ==
    LET sel == SelectSeq(df, LAMBDA p : IsEligible(p, region))
    IN  AsList([i \in 1..Len(sel) |->
            [ProjectID |-> sel[i].ProjectID,
             RegionName |-> sel[i].RegionName,
             Req |-> sel[i].Req,
             ProjectOrder |-> fillna(sel[i].ProjectOrder),
             ProjectExcellenceScore |-> fillna(sel[i].ProjectExcellenceScore),
             MarketingSize |-> fillna(sel[i].MarketingSize),
             AdsDistributed |-> fillna(sel[i].AdsDistributed),
             UnitTypesInProject |-> sel[i].UnitTypesInProject]])

\* ------------------------------------------------------------------ scoring
RECURSIVE SeqMax(_)
SeqMax(s) ==
    IF Len(s) = 1 THEN Head(s) ELSE Max(Head(s), SeqMax(Tail(s)))

\* region_projects["ProjectOrder"].max(), 0 when there is none
MaxOrder(rp) ==
    IF rp = <<>> THEN 0
    ELSE SeqMax(AsList([i \in 1..Len(rp) |-> rp[i].ProjectOrder]))

\* Series.clip(lower=0)
clip(x) == Max(x, 0)

\* variant: a later ProjectOrder scores higher
PriorityScore_LaterFirst(p, max_order) == Scale * (p.ProjectOrder + 1)

PriorityScore(p, max_order) == Scale * (max_order - p.ProjectOrder + 1)

ExcellenceScoreCalc(p) == p.ProjectExcellenceScore

\* variant: the remaining size is not clipped
RemainingSizeScore_NoClip(p) == Scale * (p.MarketingSize - p.AdsDistributed)

RemainingSizeScore(p) == Scale * clip(p.MarketingSize - p.AdsDistributed)

TotalScore(p, max_order) ==
    clip(PriorityScore(p, max_order) + Scale * DemandBonus
            + ExcellenceScoreCalc(p) + RemainingSizeScore(p))

\* the score columns added to the filtered copy (all in units of 1/Scale)
ScoreProjects(rp) ==
    LET max_order == MaxOrder(rp)
    IN  AsList([i \in 1..Len(rp) |->
            [ProjectID |-> rp[i].ProjectID,
             UnitTypesInProject |-> rp[i].UnitTypesInProject,
             ProjectOrder |-> rp[i].ProjectOrder,
             ProjectExcellenceScore |-> rp[i].ProjectExcellenceScore,
             MarketingSize |-> rp[i].MarketingSize,
             AdsDistributed |-> rp[i].AdsDistributed,
             PriorityScore |-> PriorityScore(rp[i], max_order),
             DemandScore |-> Scale * DemandBonus,
             ExcellenceScoreCalc |-> ExcellenceScoreCalc(rp[i]),
             RemainingSizeScore |-> RemainingSizeScore(rp[i]),
             TotalScore |-> TotalScore(rp[i], max_order)]])

\* region_projects["TotalScore"].sum()
TotalImportanceScore(rp) ==
    SumSeq(AsList([i \in 1..Len(rp) |-> rp[i].TotalScore]))

\* ----------------------------------------------------------- project pass
\* CalculatedAds = TotalScore / total * num_ads, as the fraction num / den
CalculatedAds(p, total, num_ads) == [num |-> p.TotalScore * num_ads, den |-> total]

\* np.floor of a non-negative fraction
floor(q) == q.num \div q.den

\* CalculatedAds - floor(CalculatedAds), over the same denominator
RemainderPriority(q) == [num |-> q.num % q.den, den |-> q.den]

\* variant: ascending=True, the smallest fractional parts come first
SortedIndices_Ascending(keys) ==
    {ix \in [1..Len(keys) -> 1..Len(keys)] :
        /\ \A i, j \in 1..Len(keys) : i # j => ix[i] # ix[j]
        /\ \A i, j \in 1..Len(keys) :
              i < j => keys[ix[i]].num <= keys[ix[j]].num}

\* sort_values(by="RemainderPriority", ascending=False).index: the default sort
\* kind is not stable, so every order that is descending in the key can come out
SortedIndices(keys) ==
    {ix \in [1..Len(keys) -> 1..Len(keys)] :
        /\ \A i, j \in 1..Len(keys) : i # j => ix[i] # ix[j]
        /\ \A i, j \in 1..Len(keys) :
              i < j => keys[ix[i]].num >= keys[ix[j]].num}

\* variant: the integer parts only, the leftover ads are never handed out
AllocateProjects_FloorOnly(rp, num_ads, sorted_indices) ==
    LET total == TotalImportanceScore(rp)
    IN  AsList([i \in 1..Len(rp) |-> floor(CalculatedAds(rp[i], total, num_ads))])

\* the integer part of every share, then one more ad for each of the first
\* min(remainder_ads, len(region_projects)) positions of sorted_indices
AllocateProjects(rp, num_ads, sorted_indices) ==
    LET total == TotalImportanceScore(rp)
        calc == AsList([i \in 1..Len(rp) |-> CalculatedAds(rp[i], total, num_ads)])
        base == AsList([i \in 1..Len(rp) |-> floor(calc[i])])
        remainder_ads == num_ads - SumSeq(base)
        extra == {sorted_indices[i] : i \in 1..Min(remainder_ads, Len(rp))}
    IN  AsList([i \in 1..Len(rp) |-> base[i] + (IF i \in extra THEN 1 ELSE 0)])

RemainderKeys(rp, num_ads) ==
    LET total == TotalImportanceScore(rp)
    IN  AsList([i \in 1..Len(rp) |->
            RemainderPriority(CalculatedAds(rp[i], total, num_ads))])

WithAllocation(rp, num_ads, alloc) ==
    LET total == TotalImportanceScore(rp)
    IN  AsList([i \in 1..Len(rp) |->
            [ProjectID |-> rp[i].ProjectID,
             UnitTypesInProject |-> rp[i].UnitTypesInProject,
             ProjectOrder |-> rp[i].ProjectOrder,
             ProjectExcellenceScore |-> rp[i].ProjectExcellenceScore,
             MarketingSize |-> rp[i].MarketingSize,
             AdsDistributed |-> rp[i].AdsDistributed,
             PriorityScore |-> rp[i].PriorityScore,
             DemandScore |-> rp[i].DemandScore,
             ExcellenceScoreCalc |-> rp[i].ExcellenceScoreCalc,
             RemainingSizeScore |-> rp[i].RemainingSizeScore,
             TotalScore |-> rp[i].TotalScore,
             CalculatedAds |-> CalculatedAds(rp[i], total, num_ads),
             AllocatedAdsProject |-> alloc[i]]])

\* --------------------------------------------------------- unit-type pass
\* [ut.strip() for ut in unit_types_str.split(',') if ut.strip()]
ParseUnitTypes(unit_types_str) ==
    LET pieces == split(unit_types_str)
        stripped == AsList([i \in 1..Len(pieces) |-> str_strip(pieces[i])])
    IN  SelectSeq(stripped, LAMBDA ut : ut # <<>>)

\* pd.isna(unit_types_str) or not unit_types_str.strip()
HasNoUnitTypes(unit_types_str) ==
    unit_types_str = NaN \/ str_strip(unit_types_str) = <<>>

\* variant: the leftover ads of a project are dropped
AdsForThisUnit_NoLeftover(ads_for_project, num_unit_types, i) ==
    ads_for_project \div num_unit_types

\* variant: the leftover ads go to the last-listed unit types
AdsForThisUnit_LastFirst(ads_for_project, num_unit_types, i) ==
    (ads_for_project \div num_unit_types)
        + (IF i > num_unit_types - (ads_for_project % num_unit_types) THEN 1 ELSE 0)

\* ads_per_unit_type, plus one for the positions before remainder_unit_ads
\* (i is the 1-based position; enumerate counts from 0)
AdsForThisUnit(ads_for_project, num_unit_types, i) ==
    (ads_for_project \div num_unit_types)
        + (IF i - 1 < ads_for_project % num_unit_types THEN 1 ELSE 0)

\* one log row, before the two fields that are read off the clock
LogEntry(emp, project_id, region, unit_type_name, ads) ==
    [EmployeeID |-> emp, ProjectID |-> project_id, RegionName |-> region,
     UnitTypeName |-> unit_type_name, AdsAllocated |-> ads]

\* the body of the loop over region_projects for one project: its log rows
ProjectLogEntries(project, region, emp) ==
    LET ads_for_project == project.AllocatedAdsProject
        unit_types_str == project.UnitTypesInProject
    IN  IF ads_for_project <= 0 THEN <<>>
        ELSE IF HasNoUnitTypes(unit_types_str) THEN <<>>
        ELSE LET unit_types == ParseUnitTypes(unit_types_str)
                 all == AsList([i \in 1..Len(unit_types) |->
                            LogEntry(emp, project.ProjectID, region, unit_types[i],
                                     AdsForThisUnit(ads_for_project,
                                                    Len(unit_types), i))])
             IN  SelectSeq(all, LAMBDA e : e.AdsAllocated > 0)

RECURSIVE LogEntries(_, _, _)
LogEntries(rp, region, emp) ==
    IF rp = <<>> THEN <<>>
    ELSE ProjectLogEntries(Head(rp), region, emp) \o LogEntries(Tail(rp), region, emp)

\* unit_type_name.replace(' ', '_')
replace(name) ==
    AsList([i \in 1..Len(name) |-> IF name[i] = " " THEN "_" ELSE name[i]])

\* f"dist_{employee_id}_{project_id}_{unit_type_name.replace(' ','_')}_{timestamp}"
DistributionID(emp, project_id, unit_type_name, timestamp) ==
    <<"dist", "_", emp, "_", project_id, "_">>
        \o replace(unit_type_name) \o <<"_", ToString(timestamp)>>

\* the tick lengths of the clocks the call may run on, in units of the time
\* that passes between two reads of the clock
ClockResolutions == {1, 16}

\* datetime.now() at the k-th read of a call that starts at time 0: the
\* clock shows the last tick before the read
now(k, resolution) == k \div resolution

\* datetime.now().strftime("%Y-%m-%d %H:%M:%S") of line 114, read 0 of the call
CurrentDate(resolution) == <<"date", now(0, resolution)>>

\* the rows as appended: the k-th row appended makes the k-th read of the
\* clock after line 114 for its DistributionID, and every row carries
\* current_date
Stamped(rows, resolution) ==
    AsList([k \in 1..Len(rows) |->
        [DistributionID |-> DistributionID(rows[k].EmployeeID, rows[k].ProjectID,
                                           rows[k].UnitTypeName, now(k, resolution)),
         EmployeeID |-> rows[k].EmployeeID,
         ProjectID |-> rows[k].ProjectID,
         RegionName |-> rows[k].RegionName,
         UnitTypeName |-> rows[k].UnitTypeName,
         AdsAllocated |-> rows[k].AdsAllocated,
         DistributionDate |-> CurrentDate(resolution)]])

\* variant: the dict is updated after the unit-type checks, so only projects
\* with unit types get an entry
ProjectAdsUpdate_LoggedOnly(rp) ==
    [id \in {rp[i].ProjectID :
                i \in {j \in 1..Len(rp) :
                          /\ rp[j].AllocatedAdsProject > 0
                          /\ rp[j].UnitTypesInProject # NaN
                          /\ ParseUnitTypes(rp[j].UnitTypesInProject) # <<>>}}
        |-> LET i == CHOOSE j \in 1..Len(rp) : rp[j].ProjectID = id
            IN  rp[i].AllocatedAdsProject]

\* variant: projects with a zero award are not skipped (< 0 for <= 0)
ProjectAdsUpdate_ZeroKept(rp) ==
    [id \in {rp[i].ProjectID : i \in 1..Len(rp)}
        |-> LET i == CHOOSE j \in 1..Len(rp) : rp[j].ProjectID = id
            IN  rp[i].AllocatedAdsProject]

\* project_ads_update[str(project_id)] = ads_for_project, for the projects the
\* loop does not skip
ProjectAdsUpdate(rp) ==
    [id \in {rp[i].ProjectID : i \in {j \in 1..Len(rp) : rp[j].AllocatedAdsProject > 0}}
        |-> LET i == CHOOSE j \in 1..Len(rp) :
                        rp[j].ProjectID = id /\ rp[j].AllocatedAdsProject > 0
            IN  rp[i].AllocatedAdsProject]

TotalAdsAllocated(rp) ==
    SumSeq(AsList([i \in 1..Len(rp) |-> rp[i].AllocatedAdsProject]))

\* ----------------------------------------------------------------- actions
\* a table that came without its ProjectOrder column
WithoutProjectOrder(df) ==
    AsList([i \in 1..Len(df) |->
        [ProjectID |-> df[i].ProjectID,
         RegionName |-> df[i].RegionName,
         Req |-> df[i].Req,
         ProjectExcellenceScore |-> df[i].ProjectExcellenceScore,
         MarketingSize |-> df[i].MarketingSize,
         AdsDistributed |-> df[i].AdsDistributed,
         UnitTypesInProject |-> df[i].UnitTypesInProject]])

Init ==
    /\ columns \in ColumnSets
    /\ \E snapshot \in Snapshots :
          projects_df =
              IF columns = required_cols THEN snapshot
              ELSE WithoutProjectOrder(snapshot)
    /\ df_in = projects_df
    /\ selected_region = <<>>
    /\ num_ads_to_distribute = 0
    /\ employee_id = ""
    /\ region_projects = <<>>
    /\ distribution_log_entries = <<>>
    /\ project_ads_update = EmptyMap
    /\ total_ads_allocated = 0
    /\ pc = "start"

\* the call on the snapshot: bind the arguments, start from empty results
Enter(region, num_ads, emp) ==
    /\ pc = "start"
    /\ df_in' = projects_df
    /\ selected_region' = region
    /\ num_ads_to_distribute' = num_ads
    /\ employee_id' = emp

ReturnEmpty ==
    /\ distribution_log_entries' = <<>>
    /\ project_ads_update' = EmptyMap
    /\ total_ads_allocated' = 0

\* a required column is missing: return before anything is touched
MissingColumns(region, num_ads, emp) ==
    /\ ~(required_cols \subseteq columns)
    /\ Enter(region, num_ads, emp)
    /\ ReturnEmpty
    /\ region_projects' = <<>>
    /\ pc' = "missing_columns"
    /\ UNCHANGED <<projects_df, columns>>

\* no project of the region requires marketing
NoProjects(region, num_ads, emp) ==
    /\ required_cols \subseteq columns
    /\ Enter(region, num_ads, emp)
    /\ projects_df' = CoerceNumeric(projects_df)
    /\ region_projects' = FilterRegion(projects_df', region)
    /\ region_projects' = <<>>
    /\ ReturnEmpty
    /\ pc' = "no_projects"
    /\ UNCHANGED columns

\* the eligible projects have no positive importance score
NoScore(region, num_ads, emp) ==
    /\ required_cols \subseteq columns
    /\ Enter(region, num_ads, emp)
    /\ projects_df' = CoerceNumeric(projects_df)
    /\ \E filtered \in {FilterRegion(projects_df', region)} :
          /\ filtered # <<>>
          /\ region_projects' = ScoreProjects(filtered)
    /\ TotalImportanceScore(region_projects') <= 0
    /\ ReturnEmpty
    /\ pc' = "no_score"
    /\ UNCHANGED columns

\* the full pass: filter, score, apportion over projects, split over unit types
Distribute(region, num_ads, emp) ==
    /\ required_cols \subseteq columns
    /\ Enter(region, num_ads, emp)
    /\ projects_df' = CoerceNumeric(projects_df)
    /\ \E filtered \in {FilterRegion(projects_df', region)} :
          /\ filtered # <<>>
          /\ \E scored \in {ScoreProjects(filtered)} :
                /\ TotalImportanceScore(scored) > 0
                /\ \E sorted_indices \in SortedIndices(RemainderKeys(scored, num_ads)) :
                      region_projects' =
                          WithAllocation(scored, num_ads,
                              AllocateProjects(scored, num_ads, sorted_indices))
    /\ total_ads_allocated' = TotalAdsAllocated(region_projects')
    /\ \E rows \in {LogEntries(region_projects', region, emp)} :
       \E resolution \in ClockResolutions :
          distribution_log_entries' = Stamped(rows, resolution)
    /\ project_ads_update' = ProjectAdsUpdate(region_projects')
    /\ pc' = "returned"
    /\ UNCHANGED columns

Next ==
    \E region \in Regions, num_ads \in 1..MaxAds, emp \in EmployeeIDs :
        \/ MissingColumns(region, num_ads, emp)
        \/ NoProjects(region, num_ads, emp)
        \/ NoScore(region, num_ads, emp)
        \/ Distribute(region, num_ads, emp)

Spec == Init /\ [][Next]_vars

\* -------------------------------------------------- binary64 arithmetic
\* A float64 is held exactly, as [neg, m, e] for (-1)^neg * m * 2^e with m an
\* odd natural number below 2^Mantissa (m = 0 and e = 0 for zero), and m is
\* held as its digits in base Base, least significant first.  Every operation
\* computes the exact result and rounds it to the nearest float64, ties to
\* even, as IEEE 754 prescribes; overflow, subnormals, infinities and NaN are
\* never approached by the values of a call.
Mantissa == 53
LimbBits == 15
Base == 32768

RECURSIVE Pow2(_)
Pow2(k) == IF k = 0 THEN 1 ELSE 2 * Pow2(k - 1)

RECURSIVE BigOf(_)
BigOf(n) == IF n = 0 THEN <<>> ELSE <<n % Base>> \o BigOf(n \div Base)

RECURSIVE IntOf(_)
IntOf(a) == IF a = <<>> THEN 0 ELSE Head(a) + Base * IntOf(Tail(a))

RECURSIVE Trim(_)
Trim(a) ==
    IF a # <<>> /\ a[Len(a)] = 0 THEN Trim(SubSeq(a, 1, Len(a) - 1)) ELSE a

RECURSIVE AddCarry(_, _, _)
AddCarry(a, b, c) ==
    IF a = <<>> /\ b = <<>> THEN (IF c = 0 THEN <<>> ELSE <<c>>)
    ELSE LET x == IF a = <<>> THEN 0 ELSE Head(a)
             y == IF b = <<>> THEN 0 ELSE Head(b)
             s == x + y + c
         IN  <<s % Base>> \o AddCarry(IF a = <<>> THEN <<>> ELSE Tail(a),
                                      IF b = <<>> THEN <<>> ELSE Tail(b),
                                      s \div Base)

BigAdd(a, b) == AddCarry(a, b, 0)

RECURSIVE SubBorrow(_, _, _)
SubBorrow(a, b, c) ==
    IF a = <<>> THEN <<>>
    ELSE LET y == IF b = <<>> THEN 0 ELSE Head(b)
             d == Head(a) - y - c
         IN  <<IF d < 0 THEN d + Base ELSE d>>
                \o SubBorrow(Tail(a), IF b = <<>> THEN <<>> ELSE Tail(b),
                             IF d < 0 THEN 1 ELSE 0)

\* a - b for a >= b
BigSub(a, b) == Trim(SubBorrow(a, b, 0))

RECURSIVE CmpFrom(_, _, _)
CmpFrom(a, b, i) ==
    IF i = 0 THEN 0
    ELSE IF a[i] > b[i] THEN 1
    ELSE IF a[i] < b[i] THEN 0 - 1
    ELSE CmpFrom(a, b, i - 1)

\* 1, 0 or -1 as a > b, a = b or a < b
BigCmp(a, b) ==
    IF Len(a) > Len(b) THEN 1
    ELSE IF Len(a) < Len(b) THEN 0 - 1
    ELSE CmpFrom(a, b, Len(a))

RECURSIVE MulCarry(_, _, _)
MulCarry(a, k, c) ==
    IF a = <<>> THEN (IF c = 0 THEN <<>> ELSE <<c>>)
    ELSE LET p == Head(a) * k + c
         IN  <<p % Base>> \o MulCarry(Tail(a), k, p \div Base)

\* a * k for a digit k
MulSmall(a, k) == IF k = 0 THEN <<>> ELSE MulCarry(a, k, 0)

RECURSIVE BigMul(_, _)
BigMul(a, b) ==
    IF a = <<>> \/ b = <<>> THEN <<>>
    ELSE BigAdd(MulSmall(a, Head(b)),
                IF Tail(b) = <<>> THEN <<>> ELSE <<0>> \o BigMul(a, Tail(b)))

RECURSIVE BitLenSmall(_)
BitLenSmall(x) == IF x = 0 THEN 0 ELSE 1 + BitLenSmall(x \div 2)

BitLen(a) ==
    IF a = <<>> THEN 0 ELSE LimbBits * (Len(a) - 1) + BitLenSmall(a[Len(a)])

\* a * 2^k
ShiftLeft(a, k) ==
    IF a = <<>> THEN <<>>
    ELSE AsList([i \in 1..(k \div LimbBits) |-> 0])
            \o MulSmall(a, Pow2(k % LimbBits))

\* a \div 2^k
ShiftRight(a, k) ==
    LET d == Pow2(k % LimbBits)
        b == SubSeq(a, (k \div LimbBits) + 1, Len(a))
    IN  Trim(AsList([j \in 1..Len(b) |->
            (b[j] \div d)
                + (IF j < Len(b) THEN (b[j + 1] % d) * (Base \div d) ELSE 0)]))

\* bit i of a, bit 0 the least significant
Bit(a, i) ==
    IF (i \div LimbBits) + 1 > Len(a) THEN 0
    ELSE (a[(i \div LimbBits) + 1] \div Pow2(i % LimbBits)) % 2

IsOdd(a) == a # <<>> /\ a[1] % 2 = 1

RECURSIVE TrailingZerosSmall(_)
TrailingZerosSmall(x) == IF x % 2 = 1 THEN 0 ELSE 1 + TrailingZerosSmall(x \div 2)

RECURSIVE TrailingZeros(_)
TrailingZeros(a) ==
    IF Head(a) = 0 THEN LimbBits + TrailingZeros(Tail(a))
    ELSE TrailingZerosSmall(Head(a))

\* the largest digit k with k * d <= r, found bit by bit from bit i down
RECURSIVE QuotDigit(_, _, _, _)
QuotDigit(r, d, i, k) ==
    IF i < 0 THEN k
    ELSE IF BigCmp(MulSmall(d, k + Pow2(i)), r) <= 0
         THEN QuotDigit(r, d, i - 1, k + Pow2(i))
         ELSE QuotDigit(r, d, i - 1, k)

\* long division, one digit of n at a time from digit i down: quotient and rest
RECURSIVE DivDigits(_, _, _, _, _)
DivDigits(n, d, i, q, r) ==
    IF i = 0 THEN [q |-> Trim(q), r |-> r]
    ELSE LET r2 == Trim(<<n[i]>> \o r)
             k == QuotDigit(r2, d, LimbBits - 1, 0)
         IN  DivDigits(n, d, i - 1, <<k>> \o q, BigSub(r2, MulSmall(d, k)))

BigDivMod(n, d) == DivDigits(n, d, Len(n), <<>>, <<>>)

Zero64 == [neg |-> FALSE, m |-> <<>>, e |-> 0]

\* the float64 that is exactly (-1)^neg * M * 2^e, for M below 2^Mantissa
Exact64(neg, M, e) ==
    IF M = <<>> THEN Zero64
    ELSE LET tz == TrailingZeros(M)
         IN  [neg |-> neg, m |-> ShiftRight(M, tz), e |-> e + tz]

\* the float64 nearest to (-1)^neg * M * 2^e, ties to the even significand
Round64(neg, M, e) ==
    IF BitLen(M) <= Mantissa THEN Exact64(neg, M, e)
    ELSE LET k == BitLen(M) - Mantissa
             q == ShiftRight(M, k)
             rest == BigSub(M, ShiftLeft(q, k))
             c == BigCmp(rest, ShiftLeft(<<1>>, k - 1))
             up == c > 0 \/ (c = 0 /\ IsOdd(q))
         IN  Exact64(neg, IF up THEN BigAdd(q, <<1>>) ELSE q, e + k)

\* an integer as float64 (exact below 2^31)
float64(n) == Exact64(n < 0, BigOf(IF n < 0 THEN 0 - n ELSE n), 0)

Neg64(x) == IF x.m = <<>> THEN x ELSE [neg |-> ~x.neg, m |-> x.m, e |-> x.e]

\* x + y
Add64(x, y) ==
    LET e == Min(x.e, y.e)
        a == ShiftLeft(x.m, x.e - e)
        b == ShiftLeft(y.m, y.e - e)
        c == BigCmp(a, b)
    IN  IF x.neg = y.neg THEN Round64(x.neg, BigAdd(a, b), e)
        ELSE IF c = 0 THEN Zero64
        ELSE IF c > 0 THEN Round64(x.neg, BigSub(a, b), e)
        ELSE Round64(y.neg, BigSub(b, a), e)

\* x - y
Sub64(x, y) == Add64(x, Neg64(y))

\* x * y
Mul64(x, y) == Round64(x.neg # y.neg, BigMul(x.m, y.m), x.e + y.e)

\* x / y for y # 0: the quotient to Mantissa + 3 bits or more, with a last
\* bit that tells whether the division left a rest, then rounded
Div64(x, y) ==
    IF x.m = <<>> THEN Zero64
    ELSE LET k == Max(0, Mantissa + 3 + BitLen(y.m) - BitLen(x.m))
             qr == BigDivMod(ShiftLeft(x.m, k), y.m)
             M == AddCarry(MulSmall(qr.q, 2),
                           IF qr.r = <<>> THEN <<>> ELSE <<1>>, 0)
         IN  Round64(x.neg # y.neg, M, x.e - y.e - k - 1)

\* x < y
Less64(x, y) == Sub64(x, y).neg

\* np.floor(x).astype(int) for x >= 0
Floor64(x) ==
    IF x.e >= 0 THEN IntOf(ShiftLeft(x.m, x.e)) ELSE IntOf(ShiftRight(x.m, 0 - x.e))

\* ------------------------------------------- the call in float64 arithmetic
\* Spec holds every share as an exact fraction.  SpecFloat is the same call
\* with lines 62 to 109 computed as numpy computes them, in float64, on
\* snapshots whose scores are not binary fractions.
MaxProjectsFloat == 2
MaxAdsFloat == 9

\* the rows a snapshot of SpecFloat is built from
ProjectRowsFloat ==
    { Row(North, <<"Y", "e", "s">>, Num(1), Num(16), Num(0), Num(0), <<"A">>),
      Row(North, <<"Y", "e", "s">>, Num(1), Num(35), Num(0), Num(0), <<"A">>),
      Row(North, <<"Y", "e", "s">>, Num(2), Num(0), Num(2), Num(1), <<"A">>),
      Row(North, <<"Y", "e", "s">>, Num(2), Num(0 - 70), Num(0), Num(0), <<"A">>) }

SnapshotsFloat ==
    UNION {{WithID(rows) : rows \in [1..n -> ProjectRowsFloat]} :
              n \in 0..MaxProjectsFloat}

\* Series.clip(lower=0) of a float64 column
clip64(x) == IF x.neg THEN Zero64 ELSE x

\* max_order - ProjectOrder + 1, an integer
PriorityScore64(p, max_order) == float64(max_order - p.ProjectOrder + 1)

\* ProjectExcellenceScore / 10.0
ExcellenceScoreCalc64(p) == Div64(float64(p.ProjectExcellenceScore), float64(Scale))

\* (MarketingSize - AdsDistributed).clip(lower=0), an integer
RemainingSizeScore64(p) == float64(clip(p.MarketingSize - p.AdsDistributed))

\* PriorityScore + DemandScore + ExcellenceScoreCalc + RemainingSizeScore,
\* added from left to right, then clipped
TotalScore64(p, max_order) ==
    clip64(Add64(Add64(Add64(PriorityScore64(p, max_order), float64(DemandBonus)),
                       ExcellenceScoreCalc64(p)),
                 RemainingSizeScore64(p)))

ScoreProjects64(rp) ==
    LET max_order == MaxOrder(rp)
    IN  AsList([i \in 1..Len(rp) |->
            [ProjectID |-> rp[i].ProjectID,
             UnitTypesInProject |-> rp[i].UnitTypesInProject,
             ProjectOrder |-> rp[i].ProjectOrder,
             ProjectExcellenceScore |-> rp[i].ProjectExcellenceScore,
             MarketingSize |-> rp[i].MarketingSize,
             AdsDistributed |-> rp[i].AdsDistributed,
             TotalScore |-> TotalScore64(rp[i], max_order)]])

\* Series.sum of a float64 column of fewer than 8 rows: added from the first
\* row on
RECURSIVE SumSeq64(_, _)
SumSeq64(s, acc) ==
    IF s = <<>> THEN acc ELSE SumSeq64(Tail(s), Add64(acc, Head(s)))

TotalImportanceScore64(rp) ==
    SumSeq64(AsList([i \in 1..Len(rp) |-> rp[i].TotalScore]), Zero64)

\* Proportion = TotalScore / total, then CalculatedAds = Proportion * num_ads
CalculatedAds64(p, total, num_ads) ==
    Mul64(Div64(p.TotalScore, total), float64(num_ads))

\* CalculatedAds - AllocatedAdsProject, before the leftover ads are handed out
RemainderPriority64(calc) == Sub64(calc, float64(Floor64(calc)))

\* sort_values(by="RemainderPriority", ascending=False).index, ties in any order
SortedIndices64(keys) ==
    {ix \in [1..Len(keys) -> 1..Len(keys)] :
        /\ \A i, j \in 1..Len(keys) : i # j => ix[i] # ix[j]
        /\ \A i, j \in 1..Len(keys) :
              i < j => ~Less64(keys[ix[i]], keys[ix[j]])}

\* variant: all the leftover ads go to the first position of sorted_indices
AllocateProjects64_AllToFirst(calc, num_ads, sorted_indices) ==
    LET base == AsList([i \in 1..Len(calc) |-> Floor64(calc[i])])
        remainder_ads == num_ads - SumSeq(base)
    IN  AsList([i \in 1..Len(calc) |->
            base[i] + (IF i = sorted_indices[1] THEN remainder_ads ELSE 0)])

\* np.floor of every share, then one more ad for each of the first
\* min(remainder_ads, len(region_projects)) positions of sorted_indices
AllocateProjects64(calc, num_ads, sorted_indices) ==
    LET base == AsList([i \in 1..Len(calc) |-> Floor64(calc[i])])
        remainder_ads == num_ads - SumSeq(base)
        extra == {sorted_indices[i] : i \in 1..Min(remainder_ads, Len(calc))}
    IN  AsList([i \in 1..Len(calc) |-> base[i] + (IF i \in extra THEN 1 ELSE 0)])

WithAllocation64(rp, calc, alloc) ==
    AsList([i \in 1..Len(rp) |->
        [ProjectID |-> rp[i].ProjectID,
         UnitTypesInProject |-> rp[i].UnitTypesInProject,
         ProjectOrder |-> rp[i].ProjectOrder,
         ProjectExcellenceScore |-> rp[i].ProjectExcellenceScore,
         MarketingSize |-> rp[i].MarketingSize,
         AdsDistributed |-> rp[i].AdsDistributed,
         TotalScore |-> rp[i].TotalScore,
         CalculatedAds |-> calc[i],
         AllocatedAdsProject |-> alloc[i]]])

InitFloat ==
    /\ columns \in ColumnSets
    /\ \E snapshot \in SnapshotsFloat :
          projects_df =
              IF columns = required_cols THEN snapshot
              ELSE WithoutProjectOrder(snapshot)
    /\ df_in = projects_df
    /\ selected_region = <<>>
    /\ num_ads_to_distribute = 0
    /\ employee_id = ""
    /\ region_projects = <<>>
    /\ distribution_log_entries = <<>>
    /\ project_ads_update = EmptyMap
    /\ total_ads_allocated = 0
    /\ pc = "start"

\* the eligible projects have no positive importance score
NoScore64(region, num_ads, emp) ==
    /\ required_cols \subseteq columns
    /\ Enter(region, num_ads, emp)
    /\ projects_df' = CoerceNumeric(projects_df)
    /\ \E filtered \in {FilterRegion(projects_df', region)} :
          /\ filtered # <<>>
          /\ \E scored \in {ScoreProjects64(filtered)} :
                /\ ~Less64(Zero64, TotalImportanceScore64(scored))
                /\ region_projects' = scored
    /\ ReturnEmpty
    /\ pc' = "no_score"
    /\ UNCHANGED columns

\* the full pass: filter, score, apportion over projects, split over unit types
Distribute64(region, num_ads, emp) ==
    /\ required_cols \subseteq columns
    /\ Enter(region, num_ads, emp)
    /\ projects_df' = CoerceNumeric(projects_df)
    /\ \E filtered \in {FilterRegion(projects_df', region)} :
          /\ filtered # <<>>
          /\ \E scored \in {ScoreProjects64(filtered)} :
             \E total \in {TotalImportanceScore64(scored)} :
                /\ Less64(Zero64, total)
                /\ \E calc \in {AsList([i \in 1..Len(scored) |->
                                   CalculatedAds64(scored[i], total, num_ads)])} :
                   \E keys \in {AsList([i \in 1..Len(calc) |->
                                   RemainderPriority64(calc[i])])} :
                   \E sorted_indices \in SortedIndices64(keys) :
                      region_projects' =
                          WithAllocation64(scored, calc,
                              AllocateProjects64(calc, num_ads, sorted_indices))
    /\ total_ads_allocated' = TotalAdsAllocated(region_projects')
    /\ \E rows \in {LogEntries(region_projects', region, emp)} :
       \E resolution \in ClockResolutions :
          distribution_log_entries' = Stamped(rows, resolution)
    /\ project_ads_update' = ProjectAdsUpdate(region_projects')
    /\ pc' = "returned"
    /\ UNCHANGED columns

NextFloat ==
    \E region \in Regions, num_ads \in 1..MaxAdsFloat, emp \in EmployeeIDs :
        \/ MissingColumns(region, num_ads, emp)
        \/ NoProjects(region, num_ads, emp)
        \/ NoScore64(region, num_ads, emp)
        \/ Distribute64(region, num_ads, emp)

SpecFloat == InitFloat /\ [][NextFloat]_vars

\* -------------------------------------------------------------- properties
\* what the claims call eligible, spelling by spelling
YesSpellings ==
    {<<"Y", "e", "s">>, <<" ", "y", "E", "S", " ">>, <<"y", "e", "s">>,
     <<"Y", "E", "S">>}

NorthSpellings == {North, <<" ", "n", "O", " ">>}

SameRegion(a, b) ==
    \/ a \in NorthSpellings /\ b \in NorthSpellings
    \/ a = South /\ b = South

EligibleAsClaimed(project) ==
    /\ project.Req \in YesSpellings
    /\ SameRegion(project.RegionName, selected_region)

HasEligibleAsClaimed == \E i \in 1..Len(df_in) : EligibleAsClaimed(df_in[i])

\* the call has returned, and the table had every required column
ReturnedOnSnapshot == pc # "start" /\ required_cols \subseteq columns

SumTotalScore ==
    SumSeq(AsList([i \in 1..Len(region_projects) |-> region_projects[i].TotalScore]))

SumAwards ==
    SumSeq(AsList([i \in 1..Len(region_projects) |->
                      region_projects[i].AllocatedAdsProject]))

\* the log rows of one project, in emission order
RowsOf(project_id) ==
    SelectSeq(distribution_log_entries, LAMBDA e : e.ProjectID = project_id)

SumAdsOf(project_id) ==
    LET rows == RowsOf(project_id)
    IN  SumSeq(AsList([i \in 1..Len(rows) |-> rows[i].AdsAllocated]))

\* C1: when some project is eligible and the eligible projects' TotalScore sum is
\* positive, the awards of the eligible projects sum to the requested quantity,
\* which is the returned total; otherwise the returned total is 0.
C1_Conservation ==
    ReturnedOnSnapshot =>
        IF HasEligibleAsClaimed /\ SumTotalScore > 0
        THEN /\ pc = "returned"
             /\ SumAwards = num_ads_to_distribute
             /\ total_ads_allocated = num_ads_to_distribute
        ELSE total_ads_allocated = 0

\* three eligible projects, leftover ads handed out, and the total is the request
C1_Witness ==
    /\ pc = "returned"
    /\ Len(region_projects) = 3
    /\ \E i \in 1..3 :
          region_projects[i].AllocatedAdsProject
              > floor(region_projects[i].CalculatedAds)
    /\ total_ads_allocated = num_ads_to_distribute

\* C2: for a project with award a > 0 and k >= 1 parsed unit types, the
\* AdsAllocated of its log rows sum to a, which is its project-update value.
C2_SubConservation ==
    pc = "returned" =>
        \A i \in 1..Len(region_projects) :
            LET p == region_projects[i]
            IN  (/\ p.AllocatedAdsProject > 0
                 /\ p.UnitTypesInProject # NaN
                 /\ Len(ParseUnitTypes(p.UnitTypesInProject)) >= 1)
                => /\ SumAdsOf(p.ProjectID) = p.AllocatedAdsProject
                   /\ p.ProjectID \in DOMAIN project_ads_update
                   /\ project_ads_update[p.ProjectID] = p.AllocatedAdsProject

\* a project whose award does not divide evenly over its three unit types
C2_Witness ==
    /\ pc = "returned"
    /\ \E i \in 1..Len(region_projects) :
          LET p == region_projects[i]
          IN  /\ p.UnitTypesInProject # NaN
              /\ Len(ParseUnitTypes(p.UnitTypesInProject)) = 3
              /\ p.AllocatedAdsProject = 4
              /\ Len(RowsOf(p.ProjectID)) = 3
              /\ SumAdsOf(p.ProjectID) = 4

\* ProjectID and award of every row of the apportioned table, in order
AwardList(rp, alloc) ==
    AsList([i \in 1..Len(rp) |-> <<rp[i].ProjectID, alloc[i]>>])

AwardsReturned ==
    AwardList(region_projects,
              AsList([i \in 1..Len(region_projects) |->
                         region_projects[i].AllocatedAdsProject]))

\* the snapshot of the call without the projects the claims call ineligible
EligibleOnly == SelectSeq(df_in, LAMBDA p : EligibleAsClaimed(p))

\* C3: a project whose Req is not a spelling of yes, or whose region is not the
\* selected one, is in neither the project-update map nor the log, and the call
\* returns what it can return on the snapshot without those projects.
C3_Filtering ==
    ReturnedOnSnapshot =>
        /\ \A i \in 1..Len(df_in) :
              ~EligibleAsClaimed(df_in[i]) =>
                  /\ df_in[i].ProjectID \notin DOMAIN project_ads_update
                  /\ RowsOf(df_in[i].ProjectID) = <<>>
                  /\ \A j \in 1..Len(region_projects) :
                        region_projects[j].ProjectID # df_in[i].ProjectID
        /\ LET scored ==
                   ScoreProjects(FilterRegion(CoerceNumeric(EligibleOnly),
                                              selected_region))
           IN  CASE pc = "no_projects" -> scored = <<>>
                 [] pc = "no_score" -> scored = region_projects
                 [] OTHER ->
                       \E ix \in SortedIndices(RemainderKeys(scored,
                                                   num_ads_to_distribute)) :
                           AwardsReturned =
                               AwardList(scored,
                                   AllocateProjects(scored, num_ads_to_distribute,
                                                    ix))

\* two eligible projects share the ads while a Req = "No" project of the same
\* region and a project of another region, both with the largest ProjectOrder
\* and capacity, stay out
C3_Witness ==
    /\ pc = "returned"
    /\ Len(df_in) = 3
    /\ Len(region_projects) = 1
    /\ region_projects[1].ProjectID = "P2"
    /\ df_in[1].Req = <<"N", "o">>
    /\ df_in[3].RegionName = South
    /\ selected_region \in NorthSpellings
    /\ DOMAIN project_ads_update = {"P2"}

\* the fixed weights and eligible set of the call, apportioned for one more ad
NextApportionments ==
    {AllocateProjects(region_projects, num_ads_to_distribute + 1, ix) :
        ix \in SortedIndices(RemainderKeys(region_projects,
                                           num_ads_to_distribute + 1))}

Changed(next) ==
    {i \in 1..Len(region_projects) :
        next[i] # region_projects[i].AllocatedAdsProject}

\* C4 as claimed: from Q to Q+1 at most one award changes, by +1, none decreases
\* (read in the claim's favour: for some order the sort may leave ties in)
C4_AsClaimed ==
    pc = "returned" =>
        \E next \in NextApportionments :
            /\ Cardinality(Changed(next)) <= 1
            /\ \A i \in Changed(next) :
                  next[i] = region_projects[i].AllocatedAdsProject + 1

\* C4: from Q to Q+1 the awards' sum grows by exactly 1 and no award drops by
\* more than 1; with at most two eligible projects exactly one award changes,
\* by +1.
C4_NextAd ==
    pc = "returned" =>
        \A next \in NextApportionments :
            /\ SumSeq(next) = SumAwards + 1
            /\ \A i \in 1..Len(region_projects) :
                  next[i] >= region_projects[i].AllocatedAdsProject - 1
            /\ Len(region_projects) <= 2 =>
                  /\ Cardinality(Changed(next)) = 1
                  /\ \A i \in Changed(next) :
                        next[i] = region_projects[i].AllocatedAdsProject + 1

\* three eligible projects with distinct fractional parts at Q and at Q+1 (no
\* tie to break), where the ad added takes an ad away from a project
C4_Witness ==
    /\ pc = "returned"
    /\ Len(region_projects) = 3
    /\ Cardinality(SortedIndices(RemainderKeys(region_projects,
                                               num_ads_to_distribute + 1))) <= 2
    /\ \E next \in NextApportionments :
          /\ SumSeq(next) = SumAwards + 1
          /\ \E i \in 1..3 : next[i] = region_projects[i].AllocatedAdsProject - 1

\* the unit-type texts that hold no unit type: missing, blank, separators only
NoUnitTypeTexts == {NaN, <<" ">>, <<" ", ",", " ">>}

\* C5: an eligible project with a positive award and no unit type has no log
\* row, keeps its award in the project-update map, and its award is counted in
\* the returned total.
C5_NoUnitTypes ==
    pc = "returned" =>
        \A i \in 1..Len(region_projects) :
            LET p == region_projects[i]
            IN  (p.AllocatedAdsProject > 0 /\ p.UnitTypesInProject \in NoUnitTypeTexts)
                => /\ RowsOf(p.ProjectID) = <<>>
                   /\ p.ProjectID \in DOMAIN project_ads_update
                   /\ project_ads_update[p.ProjectID] = p.AllocatedAdsProject
                   /\ total_ads_allocated = SumAwards
                   /\ total_ads_allocated = num_ads_to_distribute

\* two projects with different kinds of empty unit-type text, one of them a
\* missing text, are awarded in one call, and the log is empty although every
\* ad was allocated
C5_Witness ==
    /\ pc = "returned"
    /\ \E i, j \in 1..Len(region_projects) :
          /\ region_projects[i].UnitTypesInProject = NaN
          /\ region_projects[j].UnitTypesInProject \in NoUnitTypeTexts \ {NaN}
          /\ region_projects[i].AllocatedAdsProject > 0
          /\ region_projects[j].AllocatedAdsProject > 0
          /\ {region_projects[i].ProjectID, region_projects[j].ProjectID}
                \subseteq DOMAIN project_ads_update
    /\ distribution_log_entries = <<>>
    /\ total_ads_allocated = num_ads_to_distribute

RECURSIVE SumMap(_, _)
SumMap(f, keys) ==
    IF keys = {} THEN 0
    ELSE LET key == CHOOSE x \in keys : TRUE
         IN  f[key] + SumMap(f, keys \ {key})

\* C6: the project-update map has exactly the eligible projects with a positive
\* award, each with its award; a zero award has no entry and no log row; the
\* values sum to the returned total.
C6_UpdateMap ==
    pc = "returned" =>
        /\ DOMAIN project_ads_update =
               {region_projects[i].ProjectID :
                   i \in {j \in 1..Len(region_projects) :
                             region_projects[j].AllocatedAdsProject > 0}}
        /\ \A i \in 1..Len(region_projects) :
              LET p == region_projects[i]
              IN  IF p.AllocatedAdsProject > 0
                  THEN project_ads_update[p.ProjectID] = p.AllocatedAdsProject
                  ELSE /\ p.ProjectID \notin DOMAIN project_ads_update
                       /\ RowsOf(p.ProjectID) = <<>>
        /\ SumMap(project_ads_update, DOMAIN project_ads_update)
               = total_ads_allocated

\* one eligible project is awarded every ad and one, with a positive score but
\* a zero award, is left out of the map
C6_Witness ==
    /\ pc = "returned"
    /\ \E i, j \in 1..Len(region_projects) :
          /\ region_projects[i].AllocatedAdsProject = 0
          /\ region_projects[i].TotalScore > 0
          /\ region_projects[j].AllocatedAdsProject > 0
          /\ DOMAIN project_ads_update = {region_projects[j].ProjectID}
          /\ project_ads_update[region_projects[j].ProjectID] = total_ads_allocated

\* the scores are computed (the call got past the filter)
ScoresComputed == pc \in {"returned", "no_score"}

\* the value fillna(0) and to_numeric leave of an input cell
ValueOfCell(c) == IF c.k \in {"num", "numtext"} THEN c.v ELSE 0

InputRow(project_id) ==
    df_in[CHOOSE i \in 1..Len(df_in) : df_in[i].ProjectID = project_id]

NonNegativeButExcellence ==
    /\ \A i \in 1..Len(region_projects) :
          LET p == region_projects[i]
          IN  /\ p.PriorityScore >= 0
              /\ p.DemandScore >= 0
              /\ p.RemainingSizeScore >= 0
              /\ p.TotalScore >= 0
              /\ pc = "returned" => p.AllocatedAdsProject >= 0
              /\ ValueOfCell(InputRow(p.ProjectID).AdsDistributed)
                    > ValueOfCell(InputRow(p.ProjectID).MarketingSize)
                 => p.RemainingSizeScore = 0
    /\ \A r \in 1..Len(distribution_log_entries) :
          distribution_log_entries[r].AdsAllocated >= 0

\* C7 as claimed: every computed score, ExcellenceScoreCalc included, every
\* award and every sub-award is >= 0
C7_AsClaimed ==
    ScoresComputed =>
        /\ NonNegativeButExcellence
        /\ \A i \in 1..Len(region_projects) :
              region_projects[i].ExcellenceScoreCalc >= 0

\* C7: PriorityScore, DemandScore, RemainingSizeScore, TotalScore, the awards
\* and the sub-awards are >= 0, an over-capacity project has RemainingSizeScore
\* 0; ExcellenceScoreCalc is >= 0 exactly when the project's
\* ProjectExcellenceScore, read as a number, is >= 0.
C7_NonNegative ==
    ScoresComputed =>
        /\ NonNegativeButExcellence
        /\ \A i \in 1..Len(region_projects) :
              LET p == region_projects[i]
              IN  p.ExcellenceScoreCalc >= 0
                    <=> ValueOfCell(InputRow(p.ProjectID).ProjectExcellenceScore) >= 0

\* an over-capacity project with a negative ProjectExcellenceScore is awarded
C7_Witness ==
    /\ pc = "returned"
    /\ \E i \in 1..Len(region_projects) :
          LET p == region_projects[i]
          IN  /\ p.AdsDistributed > p.MarketingSize
              /\ p.RemainingSizeScore = 0
              /\ p.ExcellenceScoreCalc < 0
              /\ p.AllocatedAdsProject > 0

ScoresOf(rp) ==
    AsList([i \in 1..Len(rp) |->
        <<rp[i].ProjectID, rp[i].PriorityScore, rp[i].DemandScore,
          rp[i].ExcellenceScoreCalc, rp[i].RemainingSizeScore, rp[i].TotalScore>>])

C9_NoEligible ==
    (ReturnedOnSnapshot /\ ~HasEligibleAsClaimed) =>
        /\ pc = "no_projects"
        /\ distribution_log_entries = <<>>
        /\ project_ads_update = EmptyMap
        /\ total_ads_allocated = 0

\* the largest request on a snapshot whose three projects each miss one
\* condition: another region, Req = "No", Req missing
C9_Witness ==
    /\ pc = "no_projects"
    /\ num_ads_to_distribute = MaxAds
    /\ Len(df_in) = 3
    /\ selected_region \in NorthSpellings
    /\ df_in[1].RegionName = South /\ df_in[1].Req \in YesSpellings
    /\ df_in[2].RegionName \in NorthSpellings /\ df_in[2].Req = <<"N", "o">>
    /\ df_in[3].RegionName \in NorthSpellings /\ df_in[3].Req = NaN
    /\ distribution_log_entries = <<>>
    /\ project_ads_update = EmptyMap
    /\ total_ads_allocated = 0

\* what the claim gives the unit type at 1-based position i of k, of an award a
SubAwardAsClaimed(a, k, i) == IF i <= a % k THEN (a \div k) + 1 ELSE a \div k

\* C10: of an award a > 0 over k >= 1 unit types, the first (a mod k) listed
\* unit types get floor(a/k)+1 and the others floor(a/k); the project's log
\* rows are, in listed order, exactly the unit types with a positive sub-award.
C10_UnitTypeSplit ==
    pc = "returned" =>
        \A n \in 1..Len(region_projects) :
            LET p == region_projects[n]
                a == p.AllocatedAdsProject
                units == ParseUnitTypes(p.UnitTypesInProject)
                k == Len(units)
                rows == RowsOf(p.ProjectID)
                positive == {i \in 1..k : SubAwardAsClaimed(a, k, i) > 0}
            IN  (a > 0 /\ p.UnitTypesInProject # NaN /\ k >= 1) =>
                    /\ Len(rows) = Cardinality(positive)
                    /\ positive = 1..Len(rows)
                    /\ \A i \in 1..Len(rows) :
                          /\ rows[i].UnitTypeName = units[i]
                          /\ rows[i].AdsAllocated = SubAwardAsClaimed(a, k, i)

\* one call awards 1 ad to a project of three unit types, logged as one row for
\* the first of them, and 3 ads to a project of two unit types, logged 2 and 1
C10_Witness ==
    /\ pc = "returned"
    /\ \E m, n \in 1..Len(region_projects) :
          LET p == region_projects[m]
              q == region_projects[n]
          IN  /\ p.UnitTypesInProject = <<"A", ",", "B", " ", "C", ",", "D">>
              /\ p.AllocatedAdsProject = 1
              /\ Len(RowsOf(p.ProjectID)) = 1
              /\ RowsOf(p.ProjectID)[1].UnitTypeName = <<"A">>
              /\ RowsOf(p.ProjectID)[1].AdsAllocated = 1
              /\ q.UnitTypesInProject = <<"A", ",", " ", "B">>
              /\ q.AllocatedAdsProject = 3
              /\ Len(RowsOf(q.ProjectID)) = 2
              /\ RowsOf(q.ProjectID)[1].UnitTypeName = <<"A">>
              /\ RowsOf(q.ProjectID)[1].AdsAllocated = 2
              /\ RowsOf(q.ProjectID)[2].UnitTypeName = <<"B">>
              /\ RowsOf(q.ProjectID)[2].AdsAllocated = 1

\* the project at position i of region_projects got one of the leftover ads
GotExtra(i) ==
    region_projects[i].AllocatedAdsProject > floor(region_projects[i].CalculatedAds)

\* the fractional part of its share, over the common denominator
FractionalPart(i) == RemainderPriority(region_projects[i].CalculatedAds).num

\* no project is passed over for one with a smaller fractional part
LargestRemaindersFirst ==
    \A i, j \in 1..Len(region_projects) :
        (GotExtra(j) /\ ~GotExtra(i)) => FractionalPart(j) >= FractionalPart(i)

\* of two projects with equal fractional parts the earlier one is served first
EarlierWinsTies ==
    \A i, j \in 1..Len(region_projects) :
        (i < j /\ FractionalPart(i) = FractionalPart(j) /\ GotExtra(j))
            => GotExtra(i)

\* C11: the leftover ads go one each to the projects with the largest
\* fractional parts, and among equal fractional parts the project earlier in
\* the input snapshot receives its extra ad before the later one.
C11_AsClaimed ==
    pc = "returned" => (LargestRemaindersFirst /\ EarlierWinsTies)

\* the half of C11 that does not depend on the order of ties
C11_LargestRemainders == pc = "returned" => LargestRemaindersFirst

\* ------------------------------------------------------------------- C14
\* projects i and j of the call differ in nothing but ProjectOrder
SameButOrder(i, j) ==
    /\ region_projects[i].ProjectExcellenceScore
          = region_projects[j].ProjectExcellenceScore
    /\ region_projects[i].MarketingSize = region_projects[j].MarketingSize
    /\ region_projects[i].AdsDistributed = region_projects[j].AdsDistributed

\* C14: the project pass preserves score order: of two eligible projects of
\* one call the one with the larger TotalScore never gets fewer ads, and of two
\* eligible projects equal in excellence, size and prior distribution the one
\* with the lower ProjectOrder never gets fewer ads.
C14_ScoreOrder ==
    pc = "returned" =>
        \A i, j \in 1..Len(region_projects) :
            LET pi == region_projects[i]
                pj == region_projects[j]
            IN  /\ pi.TotalScore > pj.TotalScore
                      => pi.AllocatedAdsProject >= pj.AllocatedAdsProject
                /\ (SameButOrder(i, j) /\ pi.ProjectOrder < pj.ProjectOrder)
                      => pi.AllocatedAdsProject >= pj.AllocatedAdsProject

\* two projects that differ in ProjectOrder alone have the same integer part,
\* and the leftover ad goes to the one with the lower ProjectOrder
C14_Witness ==
    /\ pc = "returned"
    /\ \E i, j \in 1..Len(region_projects) :
          LET pi == region_projects[i]
              pj == region_projects[j]
          IN  /\ SameButOrder(i, j)
              /\ pi.ProjectOrder < pj.ProjectOrder
              /\ pi.TotalScore > pj.TotalScore
              /\ floor(pi.CalculatedAds) = floor(pj.CalculatedAds)
              /\ pi.AllocatedAdsProject > pj.AllocatedAdsProject

\* ------------------------------------------------------------------- C12
\* C12: within one call every log row has a DistributionID different from that
\* of every other row of the call, whatever the input, and all rows of the
\* call share one DistributionDate.
C12_AsClaimed ==
    \A r, t \in 1..Len(distribution_log_entries) :
        /\ r # t => distribution_log_entries[r].DistributionID
                        # distribution_log_entries[t].DistributionID
        /\ distribution_log_entries[r].DistributionDate
              = distribution_log_entries[t].DistributionDate

\* the half of C12 about DistributionDate
C12_OneDate ==
    \A r, t \in 1..Len(distribution_log_entries) :
        distribution_log_entries[r].DistributionDate
            = distribution_log_entries[t].DistributionDate

\* ------------------------------------------------------------------- C13
\* np.floor of the share of project i of the call, as the call computed it
FloorOfShare(i) == Floor64(region_projects[i].CalculatedAds)

\* remainder_ads of line 100
RemainderAds ==
    num_ads_to_distribute
        - SumSeq(AsList([i \in 1..Len(region_projects) |-> FloorOfShare(i)]))

\* floor(Q * w_i / W) of the scores as decimal numbers, without rounding
ExactFloor(i) ==
    LET exact == ScoreProjects(region_projects)
    IN  floor(CalculatedAds(exact[i], TotalImportanceScore(exact),
                            num_ads_to_distribute))

\* the rest of the quota rule: the cap of line 107 cuts nothing off, nobody
\* gets more than one leftover ad, every award is the integer part of the
\* share or one more
QuotaAwards ==
    /\ Min(RemainderAds, Len(region_projects)) = RemainderAds
    /\ \A i \in 1..Len(region_projects) :
          LET award == region_projects[i].AllocatedAdsProject
          IN  /\ award \in {FloorOfShare(i), FloorOfShare(i) + 1}
              /\ award \in {ExactFloor(i), ExactFloor(i) + 1}

\* C13 as claimed: whenever the total score is positive the leftover count
\* satisfies 0 <= remainder < N, the cap never truncates, no project receives
\* more than one extra ad, and every award is floor(Q*w_i/W) or that plus one
C13_AsClaimed ==
    pc = "returned" =>
        /\ 0 <= RemainderAds
        /\ RemainderAds < Len(region_projects)
        /\ QuotaAwards

\* C13: whenever the total score is positive the leftover count satisfies
\* 0 <= remainder <= N (it is N when every share is a whole number that
\* float64 computes just below it), the cap never truncates, no project
\* receives more than one extra ad, and every award is floor(Q*w_i/W) or
\* that plus one, for the computed share and for the exact one alike.
C13_Quota ==
    pc = "returned" =>
        /\ 0 <= RemainderAds
        /\ RemainderAds <= Len(region_projects)
        /\ QuotaAwards

\* two projects or more, each with a share computed just below a whole
\* number: the leftover count is N and every project gets one more ad
C13_Witness ==
    /\ pc = "returned"
    /\ Len(region_projects) >= 2
    /\ RemainderAds = Len(region_projects)
    /\ \A i \in 1..Len(region_projects) :
          /\ FloorOfShare(i) = ExactFloor(i) - 1
          /\ region_projects[i].AllocatedAdsProject = ExactFloor(i)

====
